---------------------------- MODULE Spec2Model ----------------------------
(***************************************************************************)
(* Model of the Amadeus MCP server (src/server.py): the credential         *)
(* resolver get_amadeus_client, the tool search_flight_offers (validation, *)
(* parameter forwarding, upstream call) and, for the HTTP transport, the   *)
(* config_middleware that copies per-request configuration into the        *)
(* process environment.                                                    *)
(*                                                                         *)
(* Python values are represented as follows.                               *)
(*   - an optional argument is a sequence: << >> is None, <<v>> is v;      *)
(*   - a str argument is a sequence of one-character strings;              *)
(*   - an environment / query value is a TLA+ string; Absent marks a       *)
(*     name that is not set (os.environ.get returns None, or its default). *)
(***************************************************************************)
EXTENDS Integers, Sequences, FiniteSets, TLC

VARIABLES
    transport,  \* MCP_TRANSPORT of the process: "stdio" or "http"
    env,        \* os.environ restricted to the five AMADEUS_* names
    pc,         \* per session: position of its current request / tool call
    query,      \* per session: query parameters of the request being served
    args,       \* per session: arguments of the running search_flight_offers
    client,     \* per session: (client_id, client_secret, hostname) handed to Client(...)
    params,     \* per session: keyword arguments handed to flight_offers_search.get
    result,     \* per session: value returned by search_flight_offers
    credCalls,  \* per session: get_amadeus_client invocations of the current call
    netCalls    \* per session: flight_offers_search.get invocations of the current call

vars == << transport, env, pc, query, args, client, params, result,
           credCalls, netCalls >>

-----------------------------------------------------------------------------
(* Bounds of the model *)

\* person counts range over -MaxNeg .. MaxPax
MaxPax == 10
MaxNeg == 1
\* airline-code strings have at most MaxCodeLen characters
MaxCodeLen == 2
\* maxPrice and max range over -MaxNeg .. MaxPrice (plus the default of max)
MaxPrice == 1

(* Program constants *)

MinAdults == 1
MaxAdults == 9
MaxSeated == 9
DefaultMax == 250

Sessions == {"s1", "s2"}
StdioSession == "s1"

-----------------------------------------------------------------------------
(* Python values *)

None == << >>
Some(v) == << v >>
Val(o) == o[1]

\* truthiness of an Optional[int]: None and 0 are falsy
TruthyInt(o) == o # None /\ Val(o) # 0
\* truthiness of an Optional[str]: None and "" are falsy
TruthyStr(o) == o # None /\ Val(o) # << >>
\* truthiness of a plain int
TruthyNum(n) == n # 0

Chars == {" ", "\t", "A"}
IsSpace(c) == c \in {" ", "\t"}

RECURSIVE LStrip(_)
LStrip(s) == IF s = << >> THEN << >>
             ELSE IF IsSpace(Head(s)) THEN LStrip(Tail(s)) ELSE s

RECURSIVE RStrip(_)
RStrip(s) == IF s = << >> THEN << >>
             ELSE IF IsSpace(s[Len(s)]) THEN RStrip(SubSeq(s, 1, Len(s) - 1)) ELSE s

\* str.strip()
Strip(s) == RStrip(LStrip(s))

-----------------------------------------------------------------------------
(* Environment *)

Absent == "<unset>"

EnvNames == {"AMADEUS_CLIENT_ID", "AMADEUS_API_KEY", "AMADEUS_CLIENT_SECRET",
             "AMADEUS_API_SECRET", "AMADEUS_HOSTNAME"}

\* truthiness of os.environ.get(name): None and "" are falsy
TruthyEnv(v) == v # Absent /\ v # ""

\* variant: the legacy name is consulted first
PyOrLegacyFirst(a, b) == IF TruthyEnv(b) THEN b ELSE a

\* Python's  a or b
PyOr(a, b) == IF TruthyEnv(a) THEN a ELSE b

\* os.environ.get(name, default)
EnvGet(e, name, default) == IF e[name] = Absent THEN default ELSE e[name]

DefaultHostname == "test"

\* lines 10-12 of get_amadeus_client
ResolveCredentials(e) ==
    [ api_key    |-> PyOr(e["AMADEUS_CLIENT_ID"], e["AMADEUS_API_KEY"]),
      api_secret |-> PyOr(e["AMADEUS_CLIENT_SECRET"], e["AMADEUS_API_SECRET"]),
      hostname   |-> EnvGet(e, "AMADEUS_HOSTNAME", DefaultHostname) ]

\* variant: only the key is tested
CredentialsMissingKeyOnly(c) == ~ TruthyEnv(c.api_key)

\* line 14
CredentialsMissing(c) == ~ TruthyEnv(c.api_key) \/ ~ TruthyEnv(c.api_secret)

\* text of the ValueError raised at lines 15-18, word by word
MissingCredentialsMessage ==
    << "Amadeus", "API", "credentials", "not", "configured.",
       "Please", "provide", "your", "Amadeus", "API", "credentials",
       "when", "connecting", "to", "this", "server." >>

\* text of the ValueError raised at line 30 (prefix; the cause follows)
FailedInitMessage == << "Failed", "to", "initialize", "Amadeus", "client:" >>

NoClient == [ api_key |-> Absent, api_secret |-> Absent, hostname |-> Absent ]


-----------------------------------------------------------------------------
(* search_flight_offers: arguments *)

\* a call with only the required arguments; max keeps its default (line 88)
DefaultArgs ==
    [ originLocationCode      |-> << "S", "Y", "D" >>,
      destinationLocationCode |-> << "B", "K", "K" >>,
      departureDate           |-> << "2", "0", "2", "3" >>,
      adults                  |-> 1,
      returnDate              |-> None,
      children                |-> None,
      infants                 |-> None,
      travelClass             |-> None,
      includedAirlineCodes    |-> None,
      excludedAirlineCodes    |-> None,
      nonStop                 |-> None,
      currencyCode            |-> None,
      maxPrice                |-> None,
      max                     |-> Some(DefaultMax) ]

RequiredNames == {"originLocationCode", "destinationLocationCode",
                  "departureDate", "adults"}

OptionalNames == {"returnDate", "children", "infants", "travelClass",
                  "includedAirlineCodes", "excludedAirlineCodes", "nonStop",
                  "currencyCode", "maxPrice", "max"}

-----------------------------------------------------------------------------
(* search_flight_offers: validation, lines 109-117 *)

AdultsErrorText  == "Adults must be between 1 and 9"
SeatedErrorText  == "Total number of seated travelers (adults + children) cannot exceed 9"
InfantsErrorText == "Number of infants cannot exceed number of adults"
NoErrorText      == ""

\* line 110:  adults and not (1 <= adults <= 9)
RejectsAdults(a) ==
    TruthyNum(a.adults) /\ ~ (MinAdults <= a.adults /\ a.adults <= MaxAdults)

\* variant: the seated total is tested whatever infants is
RejectsSeatedAnyInfants(a) ==
    /\ TruthyInt(a.children)
    /\ TruthyNum(a.adults)
    /\ a.adults + Val(a.children) > MaxSeated

\* line 113:  children and infants and adults and (adults + children > 9)
RejectsSeated(a) ==
    /\ TruthyInt(a.children)
    /\ TruthyInt(a.infants)
    /\ TruthyNum(a.adults)
    /\ a.adults + Val(a.children) > MaxSeated

\* line 116:  infants and adults and (infants > adults)
RejectsInfants(a) ==
    /\ TruthyInt(a.infants)
    /\ TruthyNum(a.adults)
    /\ Val(a.infants) > a.adults

\* the three checks in source order; the first that fires decides the error
ValidationError(a) ==
    IF RejectsAdults(a) THEN AdultsErrorText
    ELSE IF RejectsSeated(a) THEN SeatedErrorText
    ELSE IF RejectsInfants(a) THEN InfantsErrorText
    ELSE NoErrorText

-----------------------------------------------------------------------------
(* search_flight_offers: parameter forwarding, lines 136-171 *)

\* lines 144, 153, 166:  if value:
ForwardsText(o) == TruthyStr(o)

\* lines 148, 150, 168, 170:  if value is not None and value > 0:
ForwardsPositive(o) == o # None /\ Val(o) > 0

\* variant: the value is not stripped before the test
ForwardsCodesUnstripped(o) == TruthyStr(o)

\* lines 157, 159:  if value and value.strip():
ForwardsCodes(o) == TruthyStr(o) /\ Strip(Val(o)) # << >>

\* line 163:  if nonStop is True:
ForwardsFlag(o) == o = Some(TRUE)

Forwards(a, n) ==
    CASE n \in RequiredNames -> TRUE
      [] n \in {"returnDate", "travelClass", "currencyCode"} -> ForwardsText(a[n])
      [] n \in {"children", "infants", "maxPrice", "max"} -> ForwardsPositive(a[n])
      [] n \in {"includedAirlineCodes", "excludedAirlineCodes"} -> ForwardsCodes(a[n])
      [] n = "nonStop" -> ForwardsFlag(a[n])

\* the dict params of lines 137-171: the value forwarded is the argument itself
BuildParams(a) ==
    [ n \in { m \in RequiredNames \cup OptionalNames : Forwards(a, m) } |->
        IF n \in RequiredNames THEN a[n] ELSE Val(a[n]) ]

NoParams == [ n \in {} |-> 0 ]

-----------------------------------------------------------------------------
(* search_flight_offers: results (the JSON payloads, before json.dumps) *)

NoResult == [ kind |-> "none", error |-> "", message |-> << >> ]

\* lines 111, 114, 117:  {"error": text}
ErrorPayload(text) == [ kind |-> "error", error |-> text, message |-> << >> ]

\* lines 124-128:  {"error": "Configuration required", "message": str(e), "details": ...}
ConfigErrorPayload(msg) ==
    [ kind |-> "error", error |-> "Configuration required", message |-> msg ]

\* line 179:  response.body, passed through
BodyPayload == [ kind |-> "body", error |-> "", message |-> << >> ]

\* lines 180-183 and 184-187
UpstreamErrorPayload(outcome) ==
    IF outcome = "ResponseError"
    THEN ErrorPayload("Amadeus API error")
    ELSE ErrorPayload("Unexpected error")

\* what amadeus_client.shopping.flight_offers_search.get can do (line 178)
UpstreamOutcomes == {"body", "ResponseError", "Exception"}


-----------------------------------------------------------------------------
(* Positions of a session *)

\* "idle"     no request in progress
\* "dispatch" HTTP only: config_middleware has run and awaits call_next (line 302)
\* "validate" search_flight_offers entered, at line 109
\* "resolve"  validation passed, at line 119
\* "call"     client built, at line 136
\* "return"   a return statement of search_flight_offers reached
ToolPcs == {"validate", "resolve", "call", "return"}

\* search_flight_offers is a plain def (line 73): once entered in the HTTP
\* server it runs to its return on the event loop; config_middleware is a
\* coroutine (line 235) and yields at call_next.
LoopFree(s) == \A t \in Sessions \ {s} : pc[t] \notin ToolPcs

-----------------------------------------------------------------------------
(* search_flight_offers, lines 73-187, step by step *)

\* the tool is invoked with arguments drawn from argSpace
StartCall(s, argSpace) ==
    /\ IF transport = "http"
       THEN pc[s] = "dispatch" /\ LoopFree(s)
       ELSE pc[s] = "idle" /\ s = StdioSession
    /\ pc' = [pc EXCEPT ![s] = "validate"]
    /\ \E a \in argSpace : args' = [args EXCEPT ![s] = a]
    /\ client' = [client EXCEPT ![s] = NoClient]
    /\ params' = [params EXCEPT ![s] = NoParams]
    /\ result' = [result EXCEPT ![s] = NoResult]
    /\ credCalls' = [credCalls EXCEPT ![s] = 0]
    /\ netCalls' = [netCalls EXCEPT ![s] = 0]
    /\ UNCHANGED << transport, env, query >>

\* lines 109-117
Validate(s) ==
    /\ pc[s] = "validate"
    /\ IF ValidationError(args[s]) # NoErrorText
       THEN /\ result' = [result EXCEPT ![s] = ErrorPayload(ValidationError(args[s]))]
            /\ pc' = [pc EXCEPT ![s] = "return"]
       ELSE /\ pc' = [pc EXCEPT ![s] = "resolve"]
            /\ UNCHANGED result
    /\ UNCHANGED << transport, env, query, args, client, params,
                    credCalls, netCalls >>

\* lines 119-134 with get_amadeus_client, lines 7-30; ctorOk says whether
\* Client(...) at line 22 returns or raises
GetClient(s, ctorOk) ==
    /\ pc[s] = "resolve"
    /\ credCalls' = [credCalls EXCEPT ![s] = @ + 1]
    /\ LET c == ResolveCredentials(env) IN
       IF CredentialsMissing(c)
       THEN /\ result' = [result EXCEPT ![s] = ConfigErrorPayload(MissingCredentialsMessage)]
            /\ pc' = [pc EXCEPT ![s] = "return"]
            /\ UNCHANGED client
       ELSE IF ~ ctorOk
       THEN /\ result' = [result EXCEPT ![s] = ConfigErrorPayload(FailedInitMessage)]
            /\ pc' = [pc EXCEPT ![s] = "return"]
            /\ UNCHANGED client
       ELSE /\ client' = [client EXCEPT ![s] = c]
            /\ pc' = [pc EXCEPT ![s] = "call"]
            /\ UNCHANGED result
    /\ UNCHANGED << transport, env, query, args, params, netCalls >>

\* variant: a failed upstream call is attempted once more
CallUpstreamRetrying(s, outcome) ==
    /\ pc[s] = "call"
    /\ netCalls[s] < 2
    /\ params' = [params EXCEPT ![s] = BuildParams(args[s])]
    /\ netCalls' = [netCalls EXCEPT ![s] = @ + 1]
    /\ IF outcome = "body" \/ netCalls[s] = 1
       THEN /\ result' = [result EXCEPT ![s] =
                            IF outcome = "body" THEN BodyPayload
                            ELSE UpstreamErrorPayload(outcome)]
            /\ pc' = [pc EXCEPT ![s] = "return"]
       ELSE UNCHANGED << result, pc >>
    /\ UNCHANGED << transport, env, query, args, client, credCalls >>

\* lines 136-187: build params, one upstream call, and its three outcomes
CallUpstream(s, outcome) ==
    /\ pc[s] = "call"
    /\ params' = [params EXCEPT ![s] = BuildParams(args[s])]
    /\ netCalls' = [netCalls EXCEPT ![s] = @ + 1]
    /\ result' = [result EXCEPT ![s] =
                    IF outcome = "body" THEN BodyPayload
                    ELSE UpstreamErrorPayload(outcome)]
    /\ pc' = [pc EXCEPT ![s] = "return"]
    /\ UNCHANGED << transport, env, query, args, client, credCalls >>

NoQuery == [ config |-> None, amadeusClientId |-> Absent,
             amadeusClientSecret |-> Absent, amadeusHostname |-> Absent ]

\* the return statement: the result goes back to the caller and the frame
\* of the call is gone; in the HTTP server the request ends with it
Return(s) ==
    /\ pc[s] = "return"
    /\ pc' = [pc EXCEPT ![s] = "idle"]
    /\ query' = [query EXCEPT ![s] = NoQuery]
    /\ args' = [args EXCEPT ![s] = DefaultArgs]
    /\ client' = [client EXCEPT ![s] = NoClient]
    /\ params' = [params EXCEPT ![s] = NoParams]
    /\ result' = [result EXCEPT ![s] = NoResult]
    /\ credCalls' = [credCalls EXCEPT ![s] = 0]
    /\ netCalls' = [netCalls EXCEPT ![s] = 0]
    /\ UNCHANGED << transport, env >>

-----------------------------------------------------------------------------
(* Inputs *)

PaxRange == (0 - MaxNeg) .. MaxPax
OptPax == {None} \cup { Some(n) : n \in PaxRange }

Strings(n) == UNION { [1..k -> Chars] : k \in 0..n }
OptCodes == {None} \cup { Some(c) : c \in Strings(MaxCodeLen) }
OptText == {None, Some(<< >>), Some(<< "A" >>)}
OptFlag == {None, Some(TRUE), Some(FALSE)}
OptPrice == {None} \cup { Some(n) : n \in (0 - MaxNeg) .. MaxPrice }

\* passenger counts vary, the other optional arguments keep their defaults
PaxArgs ==
    { [DefaultArgs EXCEPT !.adults = a, !.children = c, !.infants = i] :
        a \in PaxRange, c \in OptPax, i \in OptPax }

\* airline codes and the non-stop flag vary
CodeArgs ==
    { [DefaultArgs EXCEPT !.includedAirlineCodes = inc,
                          !.excludedAirlineCodes = exc, !.nonStop = ns] :
        inc \in OptCodes, exc \in OptCodes, ns \in OptFlag }

\* prices, result limit and the plain text options vary
PriceArgs ==
    { [DefaultArgs EXCEPT !.maxPrice = mp, !.max = mx, !.returnDate = rd,
                          !.travelClass = tc, !.currencyCode = cc] :
        mp \in OptPrice, mx \in OptPrice \cup {Some(DefaultMax)},
        rd \in OptText, tc \in OptText, cc \in OptText }

ToolArgs == PaxArgs \cup CodeArgs \cup PriceArgs

UnsetEnv == [ n \in EnvNames |-> Absent ]

\* environments of a stdio process for the tool specification: none,
\* primary names, legacy names
ToolEnvs ==
    { UnsetEnv,
      [UnsetEnv EXCEPT !["AMADEUS_CLIENT_ID"] = "id", !["AMADEUS_CLIENT_SECRET"] = "secret",
                       !["AMADEUS_HOSTNAME"] = "production"],
      [UnsetEnv EXCEPT !["AMADEUS_API_KEY"] = "old-id", !["AMADEUS_API_SECRET"] = "old-secret"] }

-----------------------------------------------------------------------------
(* The stdio server: one session, environment fixed at process start *)

InitSessions ==
    /\ pc = [s \in Sessions |-> "idle"]
    /\ query = [s \in Sessions |-> NoQuery]
    /\ args = [s \in Sessions |-> DefaultArgs]
    /\ client = [s \in Sessions |-> NoClient]
    /\ params = [s \in Sessions |-> NoParams]
    /\ result = [s \in Sessions |-> NoResult]
    /\ credCalls = [s \in Sessions |-> 0]
    /\ netCalls = [s \in Sessions |-> 0]

Init ==
    /\ transport = "stdio"
    /\ env \in ToolEnvs
    /\ InitSessions

Next ==
    \E s \in Sessions :
        \/ StartCall(s, ToolArgs)
        \/ Validate(s)
        \/ \E ok \in BOOLEAN : GetClient(s, ok)
        \/ \E o \in UpstreamOutcomes : CallUpstream(s, o)
        \/ Return(s)

Spec == Init /\ [][Next]_vars


-----------------------------------------------------------------------------
(* config_middleware, lines 234-303 *)

\* A query is the dict query_params: the three individual parameters are
\* strings (Absent when not in the query string); config is None when the
\* query string has no 'config', else Some(blob).  A blob is abstracted by
\* what lines 251-253 make of it:
\*   decodes  b64decode, decode('utf-8') and json.loads all succeed
\*   object   the decoded JSON value is an object (has .keys(), line 256)
\*   fields   its members among the three names; Absent when not a member,
\*            NonString when the member is not a JSON string
NonString == "<json-number>"

ConfigNames == {"amadeusClientId", "amadeusClientSecret", "amadeusHostname"}

\* the environment name each configuration field is written to
EnvNameOf(n) ==
    CASE n = "amadeusClientId" -> "AMADEUS_CLIENT_ID"
      [] n = "amadeusClientSecret" -> "AMADEUS_CLIENT_SECRET"
      [] n = "amadeusHostname" -> "AMADEUS_HOSTNAME"

\* one  if name in config_data: os.environ[...] = config_data[name]  of lines
\* 259-269; st is (env, raised): once an exception is raised the rest of the
\* try block is skipped.  os.environ[...] = v raises TypeError unless v is a str.
ApplyBlobField(st, fields, n) ==
    IF st.raised \/ fields[n] = Absent THEN st
    ELSE IF fields[n] = NonString THEN [st EXCEPT !.raised = TRUE]
    ELSE [st EXCEPT !.env[EnvNameOf(n)] = fields[n]]

\* lines 270-273: the else branch of the hostname test
ApplyBlobDefaultHost(st, fields) ==
    IF ~ st.raised /\ fields["amadeusHostname"] = Absent
    THEN [st EXCEPT !.env["AMADEUS_HOSTNAME"] = DefaultHostname]
    ELSE st

\* lines 245-276
ApplyBlob(e, blob) ==
    IF ~ blob.decodes \/ ~ blob.object THEN e
    ELSE LET s0 == [env |-> e, raised |-> FALSE]
             s1 == ApplyBlobField(s0, blob.fields, "amadeusClientId")
             s2 == ApplyBlobField(s1, blob.fields, "amadeusClientSecret")
             s3 == ApplyBlobField(s2, blob.fields, "amadeusHostname")
             s4 == ApplyBlobDefaultHost(s3, blob.fields)
         IN s4.env

\* lines 279-299
ApplyIndividual(e, q) ==
    [ n \in EnvNames |->
        IF n = "AMADEUS_CLIENT_ID" /\ q.amadeusClientId # Absent THEN q.amadeusClientId
        ELSE IF n = "AMADEUS_CLIENT_SECRET" /\ q.amadeusClientSecret # Absent
             THEN q.amadeusClientSecret
        ELSE IF n = "AMADEUS_HOSTNAME"
             THEN (IF q.amadeusHostname # Absent THEN q.amadeusHostname
                   ELSE DefaultHostname)
        ELSE e[n] ]

\* variant: the individual parameters are used when the blob does not decode
ApplyConfigFallback(e, q) ==
    IF q.config # None /\ Val(q.config).decodes
    THEN ApplyBlob(e, Val(q.config))
    ELSE ApplyIndividual(e, q)

\* line 244:  if 'config' in query_params: ... else: ...
ApplyConfig(e, q) ==
    IF q.config # None THEN ApplyBlob(e, Val(q.config)) ELSE ApplyIndividual(e, q)

\* a request of session s with query q arrives: lines 237-300 run without
\* yielding, then the coroutine awaits call_next (line 302)
ConfigMiddleware(s, querySpace) ==
    /\ transport = "http"
    /\ pc[s] = "idle"
    /\ LoopFree(s)
    /\ \E q \in querySpace :
         /\ query' = [query EXCEPT ![s] = q]
         /\ env' = ApplyConfig(env, q)
    /\ pc' = [pc EXCEPT ![s] = "dispatch"]
    /\ UNCHANGED << transport, args, client, params, result, credCalls, netCalls >>

\* call_next serves a request that does not call search_flight_offers
\* (ping, /health, /debug, protocol traffic) and the request ends
OtherRequest(s) ==
    /\ transport = "http"
    /\ pc[s] = "dispatch"
    /\ LoopFree(s)
    /\ pc' = [pc EXCEPT ![s] = "idle"]
    /\ query' = [query EXCEPT ![s] = NoQuery]
    /\ UNCHANGED << transport, env, args, client, params, result, credCalls, netCalls >>

-----------------------------------------------------------------------------
(* The HTTP server: two sessions, each presenting its own credentials *)

\* the credentials session s connects with
CredentialsOf(s) ==
    [ amadeusClientId |-> "id-" \o s, amadeusClientSecret |-> "secret-" \o s,
      amadeusHostname |-> "host-" \o s ]

\* values a session may put in the individual parameters next to a config blob
StrayOf(s) ==
    [ amadeusClientId |-> "stray-id-" \o s, amadeusClientSecret |-> "stray-secret-" \o s,
      amadeusHostname |-> "stray-host-" \o s ]

BlobsOf(s) ==
    { [decodes |-> FALSE, object |-> FALSE, fields |-> [n \in ConfigNames |-> Absent]],
      [decodes |-> TRUE, object |-> FALSE, fields |-> [n \in ConfigNames |-> Absent]] }
    \cup
    { [decodes |-> TRUE, object |-> TRUE,
       fields |-> [amadeusClientId |-> i, amadeusClientSecret |-> k, amadeusHostname |-> h]] :
        i \in {Absent, CredentialsOf(s).amadeusClientId},
        k \in {CredentialsOf(s).amadeusClientSecret, NonString},
        h \in {Absent, CredentialsOf(s).amadeusHostname} }

QueriesOf(s) ==
    \* individual parameters only: any of the three
    { [NoQuery EXCEPT !.amadeusClientId = i, !.amadeusClientSecret = k,
                      !.amadeusHostname = h] :
        i \in {Absent, CredentialsOf(s).amadeusClientId},
        k \in {Absent, CredentialsOf(s).amadeusClientSecret},
        h \in {Absent, CredentialsOf(s).amadeusHostname} }
    \cup
    \* a config blob, alone or next to individual parameters
    { [NoQuery EXCEPT !.config = Some(b)] : b \in BlobsOf(s) }
    \cup
    { [config |-> Some(b), amadeusClientId |-> StrayOf(s).amadeusClientId,
       amadeusClientSecret |-> StrayOf(s).amadeusClientSecret,
       amadeusHostname |-> StrayOf(s).amadeusHostname] : b \in BlobsOf(s) }

\* a valid call, and one that validation rejects
BasicArgs == { DefaultArgs, [DefaultArgs EXCEPT !.adults = MaxAdults + 1] }

InitHttp ==
    /\ transport = "http"
    /\ env = UnsetEnv
    /\ InitSessions

NextHttp ==
    \E s \in Sessions :
        \/ ConfigMiddleware(s, QueriesOf(s))
        \/ OtherRequest(s)
        \/ StartCall(s, BasicArgs)
        \/ Validate(s)
        \/ \E ok \in BOOLEAN : GetClient(s, ok)
        \/ \E o \in UpstreamOutcomes : CallUpstream(s, o)
        \/ Return(s)

SpecHttp == InitHttp /\ [][NextHttp]_vars


-----------------------------------------------------------------------------
(* The HTTP server when every request presents a full triple of its session *)

FullQueriesOf(s) ==
    { [NoQuery EXCEPT !.amadeusClientId = CredentialsOf(s).amadeusClientId,
                      !.amadeusClientSecret = CredentialsOf(s).amadeusClientSecret,
                      !.amadeusHostname = CredentialsOf(s).amadeusHostname],
      [NoQuery EXCEPT !.config =
          Some([decodes |-> TRUE, object |-> TRUE, fields |-> CredentialsOf(s)])] }

NextFull ==
    \E s \in Sessions :
        \/ ConfigMiddleware(s, FullQueriesOf(s))
        \/ OtherRequest(s)
        \/ StartCall(s, BasicArgs)
        \/ Validate(s)
        \/ \E ok \in BOOLEAN : GetClient(s, ok)
        \/ \E o \in UpstreamOutcomes : CallUpstream(s, o)
        \/ Return(s)

SpecHttpFull == InitHttp /\ [][NextFull]_vars

-----------------------------------------------------------------------------
(* The stdio server under every configuration of the five variables *)

CredEnvs ==
    { [ n \in EnvNames |->
          CASE n = "AMADEUS_CLIENT_ID" -> i
            [] n = "AMADEUS_API_KEY" -> oi
            [] n = "AMADEUS_CLIENT_SECRET" -> k
            [] n = "AMADEUS_API_SECRET" -> ok
            [] n = "AMADEUS_HOSTNAME" -> h ] :
        i \in {Absent, "", "id"}, oi \in {Absent, "", "old-id"},
        k \in {Absent, "", "secret"}, ok \in {Absent, "", "old-secret"},
        h \in {Absent, "", "test", "production"} }

InitCred ==
    /\ transport = "stdio"
    /\ env \in CredEnvs
    /\ InitSessions

NextCred ==
    \E s \in Sessions :
        \/ StartCall(s, BasicArgs)
        \/ Validate(s)
        \/ \E ok \in BOOLEAN : GetClient(s, ok)
        \/ \E o \in UpstreamOutcomes : CallUpstream(s, o)
        \/ Return(s)

SpecCred == InitCred /\ [][NextCred]_vars


-----------------------------------------------------------------------------
(* Properties *)

\* validation has run in the current call of s
Validated(s) == pc[s] \in {"resolve", "call", "return"}

ValidationTexts == {AdultsErrorText, SeatedErrorText, InfantsErrorText}

Range(f) == { f[i] : i \in DOMAIN f }

\* C2: whenever the upstream call has been attempted, the request has adults
\* in [1,9], adults + children <= 9 when it carries children, and
\* infants <= adults when it carries infants.
C2_BoundaryInvariant ==
    \A s \in Sessions :
        netCalls[s] > 0 =>
            LET P == params[s] IN
            /\ P["adults"] \in 1..9
            /\ "children" \in DOMAIN P => P["adults"] + P["children"] <= 9
            /\ "infants" \in DOMAIN P => P["infants"] <= P["adults"]

\* C3: once validation has run on a call whose adults is outside [1,9], the
\* call has been rejected with "Adults must be between 1 and 9" and neither
\* get_amadeus_client nor the upstream call has been invoked.
C3_AdultsOutOfRangeRejected ==
    \A s \in Sessions :
        (Validated(s) /\ args[s].adults \notin 1..9) =>
            /\ result[s] = ErrorPayload("Adults must be between 1 and 9")
            /\ credCalls[s] = 0
            /\ netCalls[s] = 0

\* C4: once validation has run on a call with adults in [1,9], children > 0
\* and adults + children > 9: if infants > 0 the call has been rejected with
\* the seated-travellers error and no credential or upstream step has run;
\* if infants is 0 or absent the call has not been rejected and is at, or
\* past, credential resolution.
C4_SeatedRuleAsymmetry ==
    \A s \in Sessions :
        LET a == args[s] IN
        ( /\ Validated(s)
          /\ a.adults \in 1..9
          /\ a.children # None /\ Val(a.children) > 0
          /\ a.adults + Val(a.children) > 9 ) =>
            /\ (a.infants # None /\ Val(a.infants) > 0) =>
                  /\ pc[s] = "return"
                  /\ result[s].kind = "error"
                  /\ result[s].error =
                       "Total number of seated travelers (adults + children) cannot exceed 9"
                  /\ credCalls[s] = 0 /\ netCalls[s] = 0
            /\ (a.infants = None \/ a.infants = Some(0)) =>
                  /\ result[s].error \notin ValidationTexts
                  /\ pc[s] = "resolve" \/ credCalls[s] = 1

C4_Witness ==
    \E s \in Sessions :
        /\ pc[s] = "return"
        /\ args[s].adults \in 1..9
        /\ args[s].children # None /\ Val(args[s].children) > 0
        /\ args[s].infants # None /\ Val(args[s].infants) > 0
        /\ Val(args[s].infants) <= args[s].adults
        /\ args[s].adults + Val(args[s].children) > 9
        /\ result[s].error = SeatedErrorText

\* C5: once validation has run on a call with infants present and
\* infants > adults, the call has been rejected with a validation error and
\* neither credential resolution nor the upstream call has been reached.
C5_InfantsRuleRejects ==
    \A s \in Sessions :
        LET a == args[s] IN
        (Validated(s) /\ a.infants # None /\ Val(a.infants) > a.adults) =>
            /\ pc[s] = "return"
            /\ result[s].kind = "error"
            /\ result[s].error \in ValidationTexts
            /\ credCalls[s] = 0
            /\ netCalls[s] = 0

HasNonSpace(str) == \E i \in 1..Len(str) : str[i] \notin {" ", "\t"}

\* C6: the keyword arguments of the upstream call are the four required
\* fields, with the caller's values, plus exactly the optional fields that
\* are meaningful: airline codes with a non-whitespace character; children,
\* infants, maxPrice, max that are present and > 0; nonStop that is true;
\* the other text options that are present and non-empty.
C6_ForwardsExactlyMeaningful ==
    \A s \in Sessions :
        netCalls[s] > 0 =>
            LET P == params[s]
                a == args[s]
            IN
            /\ DOMAIN P \subseteq RequiredNames \cup OptionalNames
            /\ \A n \in RequiredNames : n \in DOMAIN P /\ P[n] = a[n]
            /\ \A n \in {"includedAirlineCodes", "excludedAirlineCodes"} :
                 n \in DOMAIN P <=> (a[n] # None /\ HasNonSpace(Val(a[n])))
            /\ \A n \in {"children", "infants", "maxPrice", "max"} :
                 n \in DOMAIN P <=> (a[n] # None /\ Val(a[n]) >= 1)
            /\ "nonStop" \in DOMAIN P <=> (a.nonStop # None /\ Val(a.nonStop) = TRUE)
            /\ \A n \in {"returnDate", "travelClass", "currencyCode"} :
                 n \in DOMAIN P <=> (a[n] # None /\ Len(Val(a[n])) > 0)
            /\ \A n \in DOMAIN P \ RequiredNames : P[n] = Val(a[n])

C6_Witness ==
    \E s \in Sessions :
        /\ netCalls[s] = 1
        /\ args[s].includedAirlineCodes = Some(<< " ", "\t" >>)
        /\ args[s].excludedAirlineCodes = Some(<< " ", "A" >>)
        /\ args[s].nonStop = Some(FALSE)
        /\ DOMAIN params[s] = RequiredNames \cup {"excludedAirlineCodes", "max"}

\* C7: within one call, credential resolution runs at most once and only on
\* arguments that pass validation; the upstream call runs at most once and
\* only after a client has been built; a validation rejection has run
\* neither; and the call holds a result exactly when it is at its return.
C7_StepOrdering ==
    \A s \in Sessions :
        /\ credCalls[s] \in {0, 1}
        /\ netCalls[s] \in {0, 1}
        /\ credCalls[s] = 1 =>
              /\ Validated(s)
              /\ ~ RejectsAdults(args[s]) /\ ~ RejectsSeated(args[s]) /\ ~ RejectsInfants(args[s])
        /\ netCalls[s] = 1 =>
              /\ credCalls[s] = 1
              /\ client[s] # NoClient
              /\ pc[s] = "return"
        /\ (result[s].kind = "error" /\ result[s].error \in ValidationTexts) =>
              credCalls[s] = 0 /\ netCalls[s] = 0
        /\ pc[s] = "return" <=> result[s] # NoResult
        /\ pc[s] \in {"idle", "dispatch", "validate"} => credCalls[s] = 0
        /\ pc[s] \in {"idle", "dispatch", "validate", "resolve", "call"} => netCalls[s] = 0

C7_Witness ==
    \E s \in Sessions :
        /\ pc[s] = "return"
        /\ credCalls[s] = 1
        /\ netCalls[s] = 1
        /\ result[s] = ErrorPayload("Amadeus API error")


\* the (key, secret, hostname) a query presents in full, by the route the
\* middleware reads: the blob when 'config' is there, else the individual
\* parameters
PresentsTriple(q) ==
    IF q.config # None
    THEN /\ Val(q.config).decodes
         /\ Val(q.config).object
         /\ \A n \in ConfigNames : Val(q.config).fields[n] \notin {Absent, NonString}
    ELSE \A n \in ConfigNames : q[n] # Absent

PresentedTriple(q) ==
    LET f == IF q.config # None THEN Val(q.config).fields ELSE q IN
    [ api_key |-> f["amadeusClientId"], api_secret |-> f["amadeusClientSecret"],
      hostname |-> f["amadeusHostname"] ]

\* C1: in the HTTP server, the client of a session's search_flight_offers call
\* is built from the (key, secret, hostname) that the session's own request
\* presented, whatever the requests of the other session.
C1_SessionIsolation ==
    \A s \in Sessions :
        ( /\ transport = "http"
          /\ client[s] # NoClient
          /\ PresentsTriple(query[s]) ) =>
            client[s] = PresentedTriple(query[s])

\* C8 (as claimed): the client is built with the key of AMADEUS_CLIENT_ID
\* whenever that variable is set, else of AMADEUS_API_KEY; likewise the
\* secret; and with the hostname of AMADEUS_HOSTNAME, or "test" when absent.
C8_PrimaryWinsWhenSet ==
    \A s \in Sessions :
        client[s] # NoClient =>
            /\ client[s].api_key =
                 IF env["AMADEUS_CLIENT_ID"] # Absent THEN env["AMADEUS_CLIENT_ID"]
                 ELSE env["AMADEUS_API_KEY"]
            /\ client[s].api_secret =
                 IF env["AMADEUS_CLIENT_SECRET"] # Absent THEN env["AMADEUS_CLIENT_SECRET"]
                 ELSE env["AMADEUS_API_SECRET"]
            /\ client[s].hostname =
                 IF env["AMADEUS_HOSTNAME"] # Absent THEN env["AMADEUS_HOSTNAME"] ELSE "test"

\* C8 (amended): the client is built with the key of AMADEUS_CLIENT_ID
\* whenever that variable is set to a non-empty value, else of
\* AMADEUS_API_KEY; likewise the secret; and with the hostname of
\* AMADEUS_HOSTNAME (also when empty), or "test" when absent.
C8_PrimaryWinsWhenNonEmpty ==
    \A s \in Sessions :
        client[s] # NoClient =>
            /\ env["AMADEUS_CLIENT_ID"] \notin {Absent, ""} =>
                 client[s].api_key = env["AMADEUS_CLIENT_ID"]
            /\ env["AMADEUS_CLIENT_ID"] \in {Absent, ""} =>
                 client[s].api_key = env["AMADEUS_API_KEY"]
            /\ env["AMADEUS_CLIENT_SECRET"] \notin {Absent, ""} =>
                 client[s].api_secret = env["AMADEUS_CLIENT_SECRET"]
            /\ env["AMADEUS_CLIENT_SECRET"] \in {Absent, ""} =>
                 client[s].api_secret = env["AMADEUS_API_SECRET"]
            /\ env["AMADEUS_HOSTNAME"] # Absent => client[s].hostname = env["AMADEUS_HOSTNAME"]
            /\ env["AMADEUS_HOSTNAME"] = Absent => client[s].hostname = "test"

C8_Witness ==
    \E s \in Sessions :
        /\ client[s] # NoClient
        /\ env["AMADEUS_CLIENT_ID"] = "id" /\ env["AMADEUS_API_KEY"] = "old-id"
        /\ env["AMADEUS_CLIENT_SECRET"] = "" /\ env["AMADEUS_API_SECRET"] = "old-secret"
        /\ env["AMADEUS_HOSTNAME"] = Absent
        /\ client[s] = [api_key |-> "id", api_secret |-> "old-secret", hostname |-> "test"]

\* the key, or the secret, is absent under both of its names
AbsentUnderBothNames ==
    \/ env["AMADEUS_CLIENT_ID"] = Absent /\ env["AMADEUS_API_KEY"] = Absent
    \/ env["AMADEUS_CLIENT_SECRET"] = Absent /\ env["AMADEUS_API_SECRET"] = Absent

\* the names of configuration variables and parameters a message mentions
NamesIn(msg) == Range(msg) \cap (EnvNames \cup ConfigNames)

C10_BlobPrecedence ==
    [][ \A s \in Sessions :
          (pc[s] = "idle" /\ pc'[s] = "dispatch") =>
            LET q == query'[s] IN
            IF q.config # None
            THEN /\ \A n \in ConfigNames :
                      \/ env'[EnvNameOf(n)] = env[EnvNameOf(n)]
                      \/ env'[EnvNameOf(n)] = Val(q.config).fields[n]
                      \/ n = "amadeusHostname" /\ env'[EnvNameOf(n)] = "test"
                 /\ \A n \in ConfigNames :
                      (q[n] # Absent /\ env'[EnvNameOf(n)] = q[n]) =>
                          (env[EnvNameOf(n)] = q[n] \/ Val(q.config).fields[n] = q[n])
                 /\ env'["AMADEUS_API_KEY"] = env["AMADEUS_API_KEY"]
                 /\ env'["AMADEUS_API_SECRET"] = env["AMADEUS_API_SECRET"]
            ELSE \A n \in ConfigNames :
                      q[n] # Absent => env'[EnvNameOf(n)] = q[n]
      ]_vars

C10_Witness ==
    \E s \in Sessions :
        /\ pc[s] = "dispatch"
        /\ query[s].config # None
        /\ ~ Val(query[s].config).decodes
        /\ query[s].amadeusClientId # Absent
        /\ env["AMADEUS_CLIENT_ID"] # query[s].amadeusClientId

=============================================================================
